---- MODULE Spec2Model ----
(***************************************************************************)
(* Model of SheetNester.layout (src/cam/setup/foamcam/nesting.py): the     *)
(* multi-class sheet nesting engine with packing groups, void nesting,     *)
(* void backfill and the fallback shelf pass.                              *)
(*                                                                         *)
(* Lengths are integers in tenths of a millimetre (1219.2 mm = 12192), so  *)
(* every configured length of the source is represented exactly.  The      *)
(* 1e-3 mm tolerances of the smart positioner are below one unit and so    *)
(* never change a comparison between such lengths.                         *)
(***************************************************************************)
EXTENDS Integers, Sequences, FiniteSets, TLC

\* ------------------------------------------------------------------ bounds
NParts == 3
MaxProbeCalls == 4
MaxHostFailures == 1

\* ------------------------------------------------- configuration (Config)
SHEET_CLASSES ==
  << [name |-> "STD_4x8",   w |-> 12192, h |-> 24384],
     [name |-> "EXT_4x10",  w |-> 12192, h |-> 30480],
     [name |-> "EXT_4x12",  w |-> 12192, h |-> 36576],
     [name |-> "WIDE_6x10", w |-> 18288, h |-> 30480] >>
LAYOUT_MARGIN == 100
LAYOUT_GAP == 80
MIN_PART_SPACING == 60
VOID_MEASUREMENT_BUFFER == 0
VOID_MIN_RAW == 300
PACKING_GROUP_FORCE_MAX_DIM_MM == 12000
BACKFILL_ITERATION_CAP == 50
BACKFILL_ITERATION_SLACK == 10
SMART_ROW_WEIGHT == 2000

\* The repository ships two Config classes that differ in the void settings:
\* cam/setup/foamcam/config.py and cam/common/config.py.
ConfigFiles == { "foamcam", "common" }
VoidNestingMarginOf(file)     == IF file = "foamcam" THEN 20 ELSE 0
VoidCandidateMaxDimOf(file)   == IF file = "foamcam" THEN 3000 ELSE 15000
VoidCandidateMaxAreaOf(file)  == IF file = "foamcam" THEN 25000000 ELSE 150000000

None == "None"
Parts == 1..NParts

Max(a, b) == IF a >= b THEN a ELSE b
Min(a, b) == IF a <= b THEN a ELSE b

\* SheetNester.__init__
margin == LAYOUT_MARGIN
spacing == Max(LAYOUT_GAP, MIN_PART_SPACING)

\* --------------------------------------------------------------- inputs
\* Footprints of the input bodies (w, h) with the bounding rectangles of
\* their inner loops in body-local coordinates (min corner of the body at 0):
\* a frame with a pocket, a half-sheet panel lying on its side (it fits the
\* standard class only when turned), a small strip that fits the pocket only
\* when not turned, and a panel larger than every sheet class.
ShapeList ==
  << [w |-> 15000, h |-> 25000, voids |-> << <<5500, 11500, 9500, 13500>> >>],
     [w |-> 12500, h |-> 11000, voids |-> << >>],
     [w |-> 3000,  h |-> 1500,  voids |-> << >>],
     [w |-> 20000, h |-> 40000, voids |-> << >>] >>
Shapes == { ShapeList[k] : k \in 1..Len(ShapeList) }
ShapeRank(s) == CHOOSE k \in 1..Len(ShapeList) : ShapeList[k] = s

\* Inputs are taken up to renaming of the parts: bodies come in catalogue
\* order, and a packing group may name any anchor and any member.
InputBodies ==
  { f \in [Parts -> Shapes] :
      \A i, j \in Parts : i < j => ShapeRank(f[i]) <= ShapeRank(f[j]) }

GroupChoices ==
  { << >> } \cup { << << pr[1], pr[2] >> >> : pr \in { q \in Parts \X Parts : q[1] # q[2] } }

Configs ==
  [ file     : ConfigFiles,
    strategy : {"shelf", "smart"},
    void     : {TRUE},
    cross    : BOOLEAN,
    backfill : BOOLEAN,
    spill    : BOOLEAN,
    fail     : {TRUE},
    rotate   : BOOLEAN ]

\* One input per class of equivalent inputs: a flag that the run never reads
\* is left off (spillover without a packing group, cross-sheet nesting and
\* backfill without a body that has a pocket), and among bodies of the same
\* shape the anchor is the first one.
CanonicalInput(c, b, g) ==
  /\ g = << >> => ~ c.spill
  /\ (\A p \in Parts : b[p].voids = << >>) => (~ c.cross /\ ~ c.backfill)
  /\ \A k \in 1..Len(g) : \A p \in Parts : p < g[k][1] => b[p] # b[g[k][1]]

VARIABLES
  cfg,                  \* Config flags read by layout
  bodies,               \* input bodies: part -> shape
  packing_groups,       \* Config.PACKING_GROUPS
  catalog,              \* Config.SHEET_CLASSES in the order the run reads it
  measured,             \* host measurements of one body: bbox, tmp copy, rot_90
  pc,                   \* position of layout
  items,                \* list of PartCandidate (part names), sorted
  sheet_class,          \* PartCandidate.sheet_class
  prefer_rot,           \* PartCandidate.prefer_rot
  skipped,              \* names skipped before packing
  void_candidate_names,
  class_names_sorted,   \* classes in processing order
  ci,                   \* index of the class being packed
  remaining, next_remaining, idx,
  global_sheet_index,
  sheet,                \* current sheet: [name, uid] (sheet_name, sheet_occ)
  x, y, row_h,          \* shelf cursor
  occupied,             \* smart packing: placed rectangles <<x, y, w, h>>
  placed_any, placed_here_count,
  lists,                \* part-name lists (placed_part_names objects) by sheet uid
  all_sheets,           \* list of SheetLayout [index, class_name, uid]
  available_voids,      \* list of void entries
  part_to_sheet,        \* part -> sheet name
  occs, uidNext,        \* host: live sheet occurrences [name, uid]
  sheetBodies,          \* host: bodies present in sheet components
  hostFailures,         \* host insert/move calls that failed so far
  still_remaining,      \* per-sheet void pass
  placed_names,         \* names placed when the primary packing ended
  void_candidates,      \* unplaced void candidates (backfill / fallback list)
  iterations,           \* backfill iteration counter
  max_iterations,       \* backfill iteration cap
  fallback_classes, fi, \* fallback: classes in catalog order, position
  remaining_fb, next_remaining_fb, placed_here, leftover,
  fb_handed,            \* history: parts put into fallback_groups
  fb_attempted,         \* history: parts the fallback loop has tried to place
  fb_failures,          \* history: host calls that failed inside the fallback loop
  result,               \* outcome of layout: "none", "returned", "raised"
  summary,              \* facts of the run told to the operator (log lines, dialog)
  footprint,            \* result of _sanitized_footprint on the measurements
  prober                \* foam_cam_template: probe_cache and the record of its use

cfgVars   == << cfg, bodies, packing_groups, catalog, measured >>
candVars  == << items, sheet_class, prefer_rot, skipped, void_candidate_names,
                class_names_sorted >>
sheetVars == << sheet, x, y, row_h, occupied, placed_any, placed_here_count >>
vars == << cfg, bodies, packing_groups, catalog, measured, pc, items, sheet_class, prefer_rot,
           skipped, void_candidate_names, class_names_sorted, ci, remaining,
           next_remaining, idx, global_sheet_index, sheet, x, y, row_h,
           occupied, placed_any, placed_here_count, lists, all_sheets,
           available_voids, part_to_sheet, occs, uidNext, sheetBodies,
           hostFailures, still_remaining, placed_names, void_candidates,
           iterations, max_iterations, fallback_classes, fi, remaining_fb,
           next_remaining_fb, placed_here, leftover, fb_handed, fb_attempted,
           fb_failures, result, summary, footprint, prober >>
backVars  == << placed_names, void_candidates, iterations, max_iterations >>
fbVars    == << fallback_classes, fi, remaining_fb, next_remaining_fb,
                placed_here, leftover, fb_handed, fb_attempted, fb_failures >>

VOID_NESTING_MARGIN == VoidNestingMarginOf(cfg.file)
VOID_CANDIDATE_MAX_DIM_MM == VoidCandidateMaxDimOf(cfg.file)
VOID_CANDIDATE_MAX_AREA_MM2 == VoidCandidateMaxAreaOf(cfg.file)

\* ------------------------------------------------------------ footprints
fp0(p) == << bodies[p].w, bodies[p].h >>
fp1(p) == IF cfg.rotate THEN << bodies[p].h, bodies[p].w >> ELSE None
Area(fp) == fp[1] * fp[2]
MaxArea(p) == Max(Area(fp0(p)), IF fp1(p) # None THEN Area(fp1(p)) ELSE 0)

\* ---------------------------------------------------------- sheet classes
ClassIdx == 1..Len(catalog)
ClassNames == { SHEET_CLASSES[i].name : i \in 1..Len(SHEET_CLASSES) }
ClassOf(cn) == catalog[CHOOSE i \in ClassIdx : catalog[i].name = cn]
class_order(cn) == CHOOSE i \in ClassIdx : catalog[i].name = cn

_usable_for_class(sw, sh) == << sw - 2 * margin, sh - 2 * margin >>
UsableW(cn) == _usable_for_class(ClassOf(cn).w, ClassOf(cn).h)[1]
UsableH(cn) == _usable_for_class(ClassOf(cn).w, ClassOf(cn).h)[2]

FitsClassIdx(i, w, h) ==
  LET u == _usable_for_class(catalog[i].w, catalog[i].h)
  IN  w <= u[1] /\ h <= u[2]

\* first catalog class whose usable area holds (w, h), or None
_best_class_for_dims(w, h) ==
  IF \E i \in ClassIdx : FitsClassIdx(i, w, h)
  THEN catalog[CHOOSE i \in ClassIdx :
          /\ FitsClassIdx(i, w, h)
          /\ \A j \in ClassIdx : FitsClassIdx(j, w, h) => i <= j].name
  ELSE None

\* returns <<class name or None, rot>>
_pick_best_sheet_and_rot(f0, f1) ==
  LET ok0 == _best_class_for_dims(f0[1], f0[2])
      ok1 == IF cfg.rotate /\ f1 # None
             THEN _best_class_for_dims(f1[1], f1[2]) ELSE None
  IN  IF ok0 = "STD_4x8" THEN << ok0, FALSE >>
      ELSE IF ok1 = "STD_4x8" THEN << ok1, TRUE >>
      ELSE IF ok0 = None /\ ok1 = None THEN << None, FALSE >>
      ELSE IF ok0 = None THEN << ok1, TRUE >>
      ELSE IF ok1 = None THEN << ok0, FALSE >>
      ELSE IF class_order(ok1) < class_order(ok0) THEN << ok1, TRUE >>
      ELSE << ok0, FALSE >>

\* ------------------------------------------------------- packing groups
GroupIdxOf(p) ==
  { g \in 1..Len(packing_groups) :
      \E k \in 1..Len(packing_groups[g]) : packing_groups[g][k] = p }
\* part_to_group keeps the last group that lists the part
_get_packing_group_members(p) ==
  IF GroupIdxOf(p) = {} THEN << >>
  ELSE packing_groups[CHOOSE g \in GroupIdxOf(p) : \A g2 \in GroupIdxOf(p) : g2 <= g]
_get_group_anchor(p) ==
  LET m == _get_packing_group_members(p) IN IF m = << >> THEN None ELSE m[1]
IsGroupMember(p) ==
  LET m == _get_packing_group_members(p) IN Len(m) > 1 /\ m[1] # p
anchors == { packing_groups[g][1] : g \in 1..Len(packing_groups) }

\* --------------------------------------------------------------- sorting
\* Python's stable sort with reverse=True: keys descending, ties in list order
RECURSIVE SortDesc(_, _)
SortDesc(s, key) ==
  IF s = << >> THEN << >>
  ELSE LET rest == SortDesc(Tail(s), key)
           hd   == Head(s)
           n    == Cardinality({ i \in 1..Len(rest) : key[rest[i]] > key[hd] })
       IN  SubSeq(rest, 1, n) \o << hd >> \o SubSeq(rest, n + 1, Len(rest))

AreaKey == [ p \in Parts |-> MaxArea(p) ]

\* ------------------------------------------------------ candidate building
Best(p) == _pick_best_sheet_and_rot(fp0(p), fp1(p))
\* bodies that pass the footprint / size filtering, in input order
part_records == SelectSeq([ i \in 1..NParts |-> i ], LAMBDA p : Best(p)[1] # None)
InRecords(p) == Best(p)[1] # None
\* anchor name -> best class, for anchors among the records
anchor_best_map(a) ==
  IF InRecords(a) /\ Len(_get_packing_group_members(a)) > 1
     /\ _get_packing_group_members(a)[1] = a
  THEN Best(a)[1] ELSE None
\* variant: group forcing without the size cap
skip_force_Never(p) == FALSE
\* the member is too large to be forced (PACKING_GROUP_FORCE_MAX_AREA_MM2 is None)
skip_force(p) ==
  Max(fp0(p)[1], fp0(p)[2]) > PACKING_GROUP_FORCE_MAX_DIM_MM
enforced_best(p) ==
  IF IsGroupMember(p) /\ anchor_best_map(_get_group_anchor(p)) # None
     /\ ~ skip_force(p)
  THEN anchor_best_map(_get_group_anchor(p))
  ELSE Best(p)[1]

IsVoidCandidate(p) ==
  LET max_dim == Max(Max(fp0(p)[1], fp0(p)[2]),
                     IF fp1(p) # None THEN Max(fp1(p)[1], fp1(p)[2]) ELSE 0)
      area0 == Area(fp0(p))
      area1 == IF fp1(p) # None THEN Area(fp1(p)) ELSE area0
  IN  /\ p \notin anchors
      /\ (max_dim <= VOID_CANDIDATE_MAX_DIM_MM
          \/ Max(area0, area1) <= VOID_CANDIDATE_MAX_AREA_MM2)

SortedItems ==
  LET byArea == SortDesc(part_records, AreaKey)
  IN  IF packing_groups # << >>
      THEN SelectSeq(byArea, LAMBDA p : p \in anchors)
           \o SelectSeq(byArea, LAMBDA p : p \notin anchors)
      ELSE byArea


\* classes in order of first appearance in the sorted item list
RECURSIVE Dedup(_)
Dedup(s) ==
  IF s = << >> THEN << >>
  ELSE LET d == Dedup(SubSeq(s, 1, Len(s) - 1))
       IN  IF \E k \in 1..Len(d) : d[k] = s[Len(s)] THEN d ELSE Append(d, s[Len(s)])

GroupKeys(its, cls) == Dedup([ k \in 1..Len(its) |-> cls[its[k]] ])
ClassItems(its, cls, cn) == SelectSeq(its, LAMBDA p : cls[p] = cn)
SetMax(S) == CHOOSE m \in S : \A n \in S : n <= m
class_largest_area(its, cls) ==
  [ cn \in ClassNames |->
      IF \E k \in 1..Len(its) : cls[its[k]] = cn
      THEN SetMax({ MaxArea(its[k]) : k \in { j \in 1..Len(its) : cls[its[j]] = cn } })
      ELSE 0 ]
ClassNamesSorted(its, cls) == SortDesc(GroupKeys(its, cls), class_largest_area(its, cls))

\* ------------------------------------------------------------- geometry
\* variant: a fit test that also accepts the part turned by 90 degrees
can_fit_in_void_EitherWay(w, h, void, m) ==
  \/ (w + 2 * m <= void.width) /\ (h + 2 * m <= void.height)
  \/ (h + 2 * m <= void.width) /\ (w + 2 * m <= void.height)
\* geometry.can_fit_in_void: the given orientation only
can_fit_in_void(w, h, void, m) ==
  IF m >= 0
  THEN (w + 2 * m <= void.width) /\ (h + 2 * m <= void.height)
  ELSE (w <= void.width + 2 * (0 - m)) /\ (h <= void.height + 2 * (0 - m))

\* inner-loop rectangle of a body inserted with or without the 90 degree turn
VoidRect(p, r, rot) ==
  IF rot THEN << bodies[p].h - r[4], r[1], bodies[p].h - r[2], r[3] >> ELSE r

\* geometry.detect_internal_voids on the inserted body
detect_internal_voids(p, rot) ==
  LET all == [ k \in 1..Len(bodies[p].voids) |->
                 LET bb == VoidRect(p, bodies[p].voids[k], rot)
                 IN  [ id |-> k, bbox |-> bb,
                       raw_w |-> bb[3] - bb[1], raw_h |-> bb[4] - bb[2],
                       width  |-> (bb[3] - bb[1]) + VOID_MEASUREMENT_BUFFER,
                       height |-> (bb[4] - bb[2]) + VOID_MEASUREMENT_BUFFER ] ]
  IN  SelectSeq(all, LAMBDA v : v.raw_w > VOID_MIN_RAW /\ v.raw_h > VOID_MIN_RAW)

\* orientations tried by the void nesting loops: (False, fp0), then (True, fp1)
VoidOrients(p) ==
  << << FALSE, fp0(p) >> >> \o (IF fp1(p) # None THEN << << TRUE, fp1(p) >> >> ELSE << >>)

\* variant: placement that never tries the turned footprint
Tries_Unrotated(p) == << << FALSE, fp0(p) >> >>
\* orientations tried by shelf / smart / fallback placement
Tries(p) ==
  IF prefer_rot[p] /\ cfg.rotate /\ fp1(p) # None
  THEN << << TRUE, fp1(p) >>, << FALSE, fp0(p) >> >>
  ELSE << << FALSE, fp0(p) >> >>
       \o (IF cfg.rotate /\ fp1(p) # None THEN << << TRUE, fp1(p) >> >> ELSE << >>)

\* ----------------------------------------------------- smart positioner
TestPositions(occ, sp) ==
  << << 0, 0 >> >>
  \o [ i \in 1..(3 * Len(occ)) |->
         LET o == occ[((i - 1) \div 3) + 1]
             j == (i - 1) % 3
         IN  IF j = 0 THEN << o[1] + o[3] + sp, o[2] >>
             ELSE IF j = 1 THEN << o[1], o[2] + o[4] + sp >>
             ELSE << o[1] + o[3] + sp, o[2] + o[4] + sp >> ]
  \o (IF occ # << >> THEN << << 0, 0 >> >> ELSE << >>)

Separated(tx, ty, w, h, o, sp) ==
  \/ tx + w + sp <= o[1]
  \/ tx >= o[1] + o[3] + sp
  \/ ty + h + sp <= o[2]
  \/ ty >= o[2] + o[4] + sp

EdgeDist(tx, ty, w, h, o, sp) ==
  IF tx + w + sp <= o[1] THEN o[1] - (tx + w + sp)
  ELSE IF tx >= o[1] + o[3] + sp THEN tx - (o[1] + o[3] + sp)
  ELSE IF ty + h + sp <= o[2] THEN o[2] - (ty + h + sp)
  ELSE IF ty >= o[2] + o[4] + sp THEN ty - (o[2] + o[4] + sp)
  ELSE 0

SetMin(S) == CHOOSE m \in S : \A n \in S : m <= n

SmartScore(tx, ty, w, h, occ, sp) ==
  (ty * SMART_ROW_WEIGHT + tx)
  + (IF occ = << >> THEN 0
     ELSE SetMin({ EdgeDist(tx, ty, w, h, occ[k], sp) : k \in 1..Len(occ) }))

\* position <<x, y>> of the first best-scoring free test position, or None
_find_best_position_smart(w, h, usable_w, usable_h, occ) ==
  LET tp == TestPositions(occ, spacing)
      ok(i) == /\ tp[i][1] + w <= usable_w
               /\ tp[i][2] + h <= usable_h
               /\ \A k \in 1..Len(occ) : Separated(tp[i][1], tp[i][2], w, h, occ[k], spacing)
      good == { i \in 1..Len(tp) : ok(i) }
      sc == [ i \in good |-> SmartScore(tp[i][1], tp[i][2], w, h, occ, spacing) ]
  IN  IF good = {} THEN None
      ELSE tp[CHOOSE i \in good :
                \A j \in good : sc[i] < sc[j] \/ (sc[i] = sc[j] /\ i <= j)]

\* --------------------------------------------------- shelf / smart tries
\* variant: a shelf cursor that never wraps to a new row
ShelfWrap_Never(cur, w, usable_w) == cur
\* row wrap of the shelf cursor (done before the vertical check)
ShelfWrap(cur, w, usable_w) ==
  IF cur.x > 0 /\ (cur.x + w) > usable_w
  THEN [ x |-> 0, y |-> cur.y + cur.row_h + spacing, row_h |-> 0 ]
  ELSE cur

NotPlaced(cur, nf) ==
  [ placed |-> FALSE, rot |-> FALSE, w |-> 0, h |-> 0, px |-> 0, py |-> 0,
    cur |-> cur, nf |-> nf ]

\* The "for rot, fp in tries" loop of the primary pass (fallback = FALSE) and
\* of the fallback pass (fallback = TRUE, always shelf).  The first "quota"
\* host inserts or moves the loop reaches fail; nf counts those that did.
RECURSIVE RunTries(_, _, _, _, _, _, _, _, _, _)
RunTries(tries, k, cur, occ, quota, nf, usable_w, usable_h, smart, fallback) ==
  IF k > Len(tries) THEN NotPlaced(cur, nf)
  ELSE
    LET rot == tries[k][1]
        w   == tries[k][2][1]
        h   == tries[k][2][2]
        next(c, n) == RunTries(tries, k + 1, c, occ, quota, n,
                               usable_w, usable_h, smart, fallback)
        host(c, px, py) ==
          IF nf < quota THEN next(c, nf + 1)
          ELSE [ placed |-> TRUE, rot |-> rot, w |-> w, h |-> h,
                 px |-> px, py |-> py,
                 cur |-> IF smart THEN c
                         ELSE [ x |-> c.x + w + spacing, y |-> c.y,
                                row_h |-> Max(c.row_h, h) ],
                 nf |-> nf ]
    IN  IF w > usable_w \/ h > usable_h THEN next(cur, nf)
        ELSE IF smart
        THEN LET pos == _find_best_position_smart(w, h, usable_w, usable_h, occ)
             IN  IF pos = None THEN next(cur, nf) ELSE host(cur, pos[1], pos[2])
        ELSE LET c2 == ShelfWrap(cur, w, usable_w)
             IN  IF (c2.y + h) > usable_h
                 THEN (IF fallback THEN NotPlaced(c2, nf) ELSE next(c2, nf))
                 ELSE host(c2, c2.x, c2.y)

\* ---------------------------------------------------------- void targets
MaxVoidsPerBody == CHOOSE m \in 0..4 : /\ \A s \in Shapes : Len(s.voids) <= m
                                       /\ \E s \in Shapes : Len(s.voids) = m
TripleLess(a, b) ==
  \/ a.r < b.r
  \/ a.r = b.r /\ a.e < b.e
  \/ a.r = b.r /\ a.e = b.e /\ a.v < b.v

RECURSIVE SortTriples(_)
SortTriples(S) ==
  IF S = {} THEN << >>
  ELSE LET m == CHOOSE a \in S : \A b \in S \ {a} : TripleLess(a, b)
       IN  << m >> \o SortTriples(S \ {m})

\* (orientation, void entry, void) triples the void nesting loops reach and
\* find fitting, in loop order; voids of other sheets need cross-sheet nesting
VoidTargets(p) ==
  SortTriples(
    { t \in [ r : 1..Len(VoidOrients(p)), e : 1..Len(available_voids),
              v : 1..MaxVoidsPerBody ] :
        /\ t.v <= Len(available_voids[t.e].voids)
        /\ (available_voids[t.e].uid = sheet.uid \/ cfg.cross)
        /\ can_fit_in_void(VoidOrients(p)[t.r][2][1], VoidOrients(p)[t.r][2][2],
                           available_voids[t.e].voids[t.v], VOID_NESTING_MARGIN) })

\* body centred in the void: corner coordinates are doubled so that halves stay integers
NestedBodyO(p, ei, vi, o, kind) ==
  LET e    == available_voids[ei]
      void == e.voids[vi]
      w    == o[2][1]
      h    == o[2][2]
  IN  [ part |-> p, uid |-> e.uid, sheet_name |-> e.sheet_name, kind |-> kind, rot |-> o[1], w |-> w, h |-> h,
        X0 |-> 2 * e.offset[1] + void.bbox[1] + void.bbox[3] - w,
        Y0 |-> 2 * e.offset[2] + void.bbox[2] + void.bbox[4] - h,
        px |-> 0, py |-> 0,
        owner |-> e.body_name, vid |-> void.id, vw |-> void.width, vh |-> void.height ]
NestedBody(p, t, kind) == NestedBodyO(p, t.e, t.v, VoidOrients(p)[t.r], kind)

PlacedBody(p, r, kind) ==
  [ part |-> p, uid |-> sheet.uid, sheet_name |-> sheet.name, kind |-> kind, rot |-> r.rot, w |-> r.w, h |-> r.h,
    X0 |-> 2 * (margin + r.px), Y0 |-> 2 * (margin + r.py),
    px |-> r.px, py |-> r.py,
    owner |-> 0, vid |-> 0, vw |-> 0, vh |-> 0 ]

ListEntry(p, w, h) == [ name |-> p, width |-> w, height |-> h ]

\* host failures the run may still see in its sheet loops
BudgetLeft == Max(0, MaxHostFailures - hostFailures)

\* ------------------------------------------------------------------ Init
\* the input bodies come with their resolved footprints (bodies[p].w, .h)
Unmeasured == [ bbox |-> None, tmp |-> None, rot_90 |-> FALSE ]
Unresolved == "unresolved"
\* probe_cache = {} and no probe or insertion made
ProbeBodies == { 1, 2 }
ProbeKeys == ProbeBodies \X BOOLEAN
NotProbed == "not probed"
NoProbes ==
  [ probe_cache |-> [ ck \in ProbeKeys |-> NotProbed ],
    contacts    |-> [ ck \in ProbeKeys |-> 0 ],
    calls       |-> 0,
    last        |-> [ ck |-> << 1, FALSE >>, method |-> "", host |-> 0,
                      final |-> None ] ]
NoSheet == [ name |-> None, uid |-> 0 ]

\* locals of layout before its first statement
InitLocals ==
  /\ items = << >>
  /\ sheet_class = [ p \in Parts |-> None ]
  /\ prefer_rot = [ p \in Parts |-> FALSE ]
  /\ skipped = {}
  /\ void_candidate_names = {}
  /\ class_names_sorted = << >>
  /\ ci = 0
  /\ remaining = << >> /\ next_remaining = << >> /\ idx = 0
  /\ global_sheet_index = 1
  /\ sheet = NoSheet
  /\ x = 0 /\ y = 0 /\ row_h = 0
  /\ occupied = << >>
  /\ placed_any = FALSE /\ placed_here_count = 0
  /\ lists = << >>
  /\ all_sheets = << >>
  /\ available_voids = << >>
  /\ part_to_sheet = [ p \in Parts |-> None ]
  /\ occs = {} /\ uidNext = 1
  /\ sheetBodies = {}
  /\ hostFailures = 0
  /\ still_remaining = << >>
  /\ placed_names = {}
  /\ void_candidates = << >>
  /\ iterations = 0 /\ max_iterations = 0
  /\ fallback_classes = << >> /\ fi = 0
  /\ remaining_fb = << >> /\ next_remaining_fb = << >>
  /\ placed_here = FALSE /\ leftover = << >>
  /\ fb_handed = {} /\ fb_attempted = {} /\ fb_failures = 0
  /\ result = "none"
  /\ summary = {}
  /\ footprint = Unresolved
  /\ prober = NoProbes

Init ==
  /\ cfg \in Configs
  /\ bodies \in InputBodies
  /\ packing_groups \in GroupChoices
  /\ CanonicalInput(cfg, bodies, packing_groups)
  /\ catalog = SHEET_CLASSES
  /\ measured = Unmeasured
  /\ pc = "build"
  /\ InitLocals

\* "for cn in class_names_sorted": enter class number k, or leave the loop
EnterClass(k, cns, its, cls) ==
  /\ ci' = k
  /\ IF k <= Len(cns)
     THEN /\ remaining' = SortDesc(ClassItems(its, cls, cns[k]), AreaKey)
          /\ pc' = "sheet_start"
     ELSE /\ remaining' = << >>
          /\ pc' = "after_primary"

\* layout, lines 383-558: footprints, best class, group class enforcement,
\* sorting, void-candidate marking, class order
BuildCandidates ==
  /\ pc = "build"
  /\ items' = SortedItems
  /\ sheet_class' = [ p \in Parts |-> IF InRecords(p) THEN enforced_best(p) ELSE None ]
  /\ prefer_rot' = [ p \in Parts |-> InRecords(p) /\ Best(p)[2] ]
  /\ skipped' = { p \in Parts : ~ InRecords(p) }
  /\ void_candidate_names' = { p \in Parts : InRecords(p) /\ IsVoidCandidate(p) }
  /\ class_names_sorted' = ClassNamesSorted(items', sheet_class')
  /\ IF items' = << >>
     THEN /\ pc' = "done" /\ result' = "returned"
          /\ UNCHANGED << ci, remaining, summary, footprint, prober >>
     ELSE /\ EnterClass(1, class_names_sorted', items', sheet_class')
          /\ UNCHANGED << result, summary, footprint, prober >>
  /\ UNCHANGED << cfgVars, next_remaining, idx, global_sheet_index, sheetVars,
                  lists, all_sheets, available_voids, part_to_sheet, occs, uidNext,
                  sheetBodies, hostFailures, still_remaining, backVars, fbVars >>

\* _ensure_occurrence: the live occurrence of that name, else a new one
EnsureOccurrence(name) ==
  IF \E o \in occs : o.name = name
  THEN (CHOOSE o \in occs : o.name = name).uid
  ELSE uidNext

\* top of "while remaining": open the sheet, reset the per-sheet state
StartSheet ==
  /\ pc = "sheet_start"
  /\ LET name == << global_sheet_index, class_names_sorted[ci] >>
         uid  == EnsureOccurrence(name)
     IN  /\ sheet' = [ name |-> name, uid |-> uid ]
         /\ occs' = occs \cup { [ name |-> name, uid |-> uid ] }
         /\ uidNext' = IF uid = uidNext THEN uidNext + 1 ELSE uidNext
         /\ lists' = [ u \in (DOMAIN lists) \cup {uid} |->
                         IF u = uid THEN << >> ELSE lists[u] ]
  /\ occupied' = << >>
  /\ placed_any' = FALSE /\ placed_here_count' = 0
  /\ next_remaining' = << >>
  /\ x' = 0 /\ y' = 0 /\ row_h' = 0
  /\ idx' = 1
  /\ pc' = "place"
  /\ UNCHANGED << cfgVars, candVars, ci, remaining, global_sheet_index, all_sheets,
                  available_voids, part_to_sheet, sheetBodies, hostFailures,
                  still_remaining, backVars, fbVars, result, summary,
                  footprint, prober >>

\* group constraint check at the top of the placement loop (lines 618-644)
GroupDefer(p) ==
  /\ IsGroupMember(p)
  /\ LET anchor_sheet == part_to_sheet[_get_group_anchor(p)]
     IN  \/ anchor_sheet = None
         \/ (anchor_sheet # sheet.name /\ ~ cfg.spill)

\* variant: nested parts always recorded on the sheet being packed
target_part_list_Current(e) == sheet.uid
\* target_part_list: placed_part_names of the sheet being packed, or the
\* void entry's part_names_list when the void is on another sheet (661-672)
target_part_list(e) == IF e.uid # sheet.uid THEN e.uid ELSE sheet.uid

\* record a part nested into the void of target t (lines 693-725, 896-926)
NestInto(p, t) ==
  LET e == available_voids[t.e]
      b == NestedBody(p, t, "void")
  IN  /\ sheetBodies' = sheetBodies \cup { b }
      /\ lists' = [ lists EXCEPT ![target_part_list(e)] =
                                     Append(@, ListEntry(p, b.w, b.h)) ]
      /\ part_to_sheet' = [ part_to_sheet EXCEPT ![p] = e.sheet_name ]
      /\ placed_any' = TRUE
      /\ placed_here_count' = IF e.uid = sheet.uid THEN placed_here_count + 1
                              ELSE placed_here_count

\* after the last candidate of the sheet: per-sheet void pass, or finish
AfterPlaceLoop ==
  IF idx < Len(remaining)
  THEN /\ idx' = idx + 1 /\ pc' = "place"
       /\ UNCHANGED still_remaining
  ELSE /\ idx' = 1
       /\ still_remaining' = << >>
       /\ pc' = IF cfg.void /\ available_voids' # << >> /\ next_remaining' # << >>
                THEN "void_pass" ELSE "finish"

\* one iteration of "for idx, it in enumerate(remaining)" (lines 613-843)
PrimaryAttempt ==
  /\ pc = "place"
  /\ LET it == remaining[idx]
         cn == class_names_sorted[ci]
         usable_w == UsableW(cn)
         usable_h == UsableH(cn)
         tries == Tries(it)
         cur == [ x |-> x, y |-> y, row_h |-> row_h ]
         smart == cfg.strategy = "smart"
         targets == IF cfg.void /\ available_voids # << >> /\ ~ GroupDefer(it)
                    THEN VoidTargets(it) ELSE << >>
     IN
     IF GroupDefer(it)
     THEN /\ next_remaining' = Append(next_remaining, it)
          /\ UNCHANGED << x, y, row_h, occupied, placed_any, placed_here_count,
                          lists, available_voids, part_to_sheet, sheetBodies,
                          hostFailures >>
     ELSE \E kf \in 0..Len(targets) :
          /\ kf <= BudgetLeft
          /\ IF kf < Len(targets)
             THEN \* nested into the first void whose insert and move succeed
                  /\ NestInto(it, targets[kf + 1])
                  /\ hostFailures' = hostFailures + kf
                  /\ UNCHANGED << x, y, row_h, occupied, next_remaining,
                                  available_voids >>
             ELSE \E quota \in 0..(BudgetLeft - kf) :
                  LET r == RunTries(tries, 1, cur, occupied, quota, 0,
                                    usable_w, usable_h, smart, FALSE)
                      found == detect_internal_voids(it, r.rot)
                  IN  /\ r.nf = quota
                      /\ hostFailures' = hostFailures + kf + r.nf
                      /\ x' = r.cur.x /\ y' = r.cur.y /\ row_h' = r.cur.row_h
                      /\ IF r.placed
                         THEN /\ sheetBodies' = sheetBodies \cup
                                   { PlacedBody(it, r, cfg.strategy) }
                              /\ lists' = [ lists EXCEPT ![sheet.uid] =
                                              Append(@, ListEntry(it, r.w, r.h)) ]
                              /\ part_to_sheet' = [ part_to_sheet EXCEPT ![it] = sheet.name ]
                              /\ available_voids' =
                                   IF cfg.void /\ found # << >>
                                   THEN Append(available_voids,
                                          [ body_name |-> it, voids |-> found,
                                            offset |-> << margin + r.px, margin + r.py >>,
                                            sheet_name |-> sheet.name, uid |-> sheet.uid ])
                                   ELSE available_voids
                              /\ occupied' = IF cfg.strategy = "smart"
                                             THEN Append(occupied, << r.px, r.py, r.w, r.h >>)
                                             ELSE occupied
                              /\ placed_any' = TRUE
                              /\ placed_here_count' = placed_here_count + 1
                              /\ UNCHANGED next_remaining
                         ELSE /\ next_remaining' = Append(next_remaining, it)
                              /\ UNCHANGED << occupied, placed_any, placed_here_count,
                                              lists, available_voids, part_to_sheet,
                                              sheetBodies >>
  /\ AfterPlaceLoop
  /\ UNCHANGED << cfgVars, candVars, ci, remaining, global_sheet_index, sheet,
                  all_sheets, occs, uidNext, backVars, fbVars, result, summary,
                  footprint, prober >>

\* one candidate of the per-sheet void pass (lines 845-942); no group check
VoidPassItem ==
  /\ pc = "void_pass"
  /\ LET it == next_remaining[idx]
         targets == VoidTargets(it)
     IN  \E kf \in 0..Len(targets) :
         /\ kf <= BudgetLeft
         /\ hostFailures' = hostFailures + kf
         /\ IF kf < Len(targets)
            THEN /\ NestInto(it, targets[kf + 1])
                 /\ UNCHANGED still_remaining
            ELSE /\ still_remaining' = Append(still_remaining, it)
                 /\ UNCHANGED << lists, part_to_sheet, sheetBodies, placed_any,
                                 placed_here_count >>
  /\ IF idx < Len(next_remaining)
     THEN /\ idx' = idx + 1 /\ pc' = "void_pass"
          /\ UNCHANGED next_remaining
     ELSE /\ idx' = 1 /\ pc' = "finish"
          /\ next_remaining' = still_remaining'
  /\ UNCHANGED << cfgVars, candVars, ci, remaining, global_sheet_index, sheet,
                  x, y, row_h, occupied, all_sheets, available_voids, occs, uidNext,
                  backVars, fbVars, result, summary,
                  footprint, prober >>

\* variant: a sheet counter that also advances when the sheet is dropped
SheetIndexAfter_Always(i, appended) == i + 1
\* global_sheet_index after a sheet iteration: it advances only when the
\* sheet was appended to all_sheets (lines 976-984 and 1316-1324)
SheetIndexAfter(i, appended) == IF appended THEN i + 1 ELSE i

\* variant: a finalization that keeps every sheet on which the run went on
DropEmptySheet_Never(count) == FALSE
\* "if placed_here_count == 0": the sheet got no part of its own (line 970)
DropEmptySheet(count) == count = 0

\* variant: a class loop without the no-progress break
NoProgress_Never(any) == FALSE
\* "if not placed_any: ... break" (lines 965-967)
NoProgress(any) == ~ any

\* end of the sheet iteration (lines 965-985)
FinishSheet ==
  /\ pc = "finish"
  /\ IF NoProgress(placed_any)
     THEN \* nothing could be placed: stop this class, the occurrence stays
          /\ EnterClass(ci + 1, class_names_sorted, items, sheet_class)
          /\ global_sheet_index' = SheetIndexAfter(global_sheet_index, FALSE)
          /\ UNCHANGED << all_sheets, occs >>
     ELSE /\ IF DropEmptySheet(placed_here_count)
             THEN /\ occs' = occs \ { [ name |-> sheet.name, uid |-> sheet.uid ] }
                  /\ global_sheet_index' = SheetIndexAfter(global_sheet_index, FALSE)
                  /\ UNCHANGED all_sheets
             ELSE /\ all_sheets' = Append(all_sheets,
                        [ index |-> global_sheet_index,
                          class_name |-> class_names_sorted[ci],
                          uid |-> sheet.uid ])
                  /\ global_sheet_index' = SheetIndexAfter(global_sheet_index, TRUE)
                  /\ UNCHANGED occs
          /\ IF next_remaining = << >>
             THEN EnterClass(ci + 1, class_names_sorted, items, sheet_class)
             ELSE /\ remaining' = next_remaining
                  /\ pc' = "sheet_start"
                  /\ UNCHANGED ci
  /\ UNCHANGED << cfgVars, candVars, next_remaining, idx, sheetVars, lists,
                  available_voids, part_to_sheet, uidNext, sheetBodies, hostFailures,
                  still_remaining, backVars, fbVars, result, summary,
                  footprint, prober >>

\* ------------------------------------------------------------- backfill
\* orientations(it) of the backfill pass
orientations(p) ==
  IF cfg.rotate /\ fp1(p) # None
  THEN << << FALSE, fp0(p) >>, << TRUE, fp1(p) >> >>
  ELSE << << FALSE, fp0(p) >> >>

\* prefilter of the backfill pass against the largest void width and height
can_ever_fit(p, max_void_w, max_void_h) ==
  \E k \in 1..Len(orientations(p)) :
    LET w == orientations(p)[k][2][1]
        h == orientations(p)[k][2][2]
        m == VOID_NESTING_MARGIN
    IN  \/ (w + 2 * m) <= max_void_w /\ (h + 2 * m) <= max_void_h
        \/ (h + 2 * m) <= max_void_w /\ (w + 2 * m) <= max_void_h

\* lines 989-1051: snapshot of placed names, unplaced void candidates,
\* backfill prefilter and loop set-up
AfterPrimary ==
  /\ pc = "after_primary"
  /\ placed_names' = { p \in Parts : part_to_sheet[p] # None }
  /\ LET vc == SelectSeq(items, LAMBDA p : p \in void_candidate_names
                                           /\ p \notin placed_names')
         vs == UNION { { available_voids[e].voids[v] :
                           v \in 1..Len(available_voids[e].voids) } :
                       e \in 1..Len(available_voids) }
         max_void_w == IF vs = {} THEN 0 ELSE SetMax({ v.width : v \in vs })
         max_void_h == IF vs = {} THEN 0 ELSE SetMax({ v.height : v \in vs })
         kept == SelectSeq(vc, LAMBDA p : can_ever_fit(p, max_void_w, max_void_h))
     IN  IF cfg.backfill /\ cfg.void /\ available_voids # << >> /\ vc # << >>
         THEN /\ void_candidates' = kept
              /\ IF kept = << >>
                 THEN /\ available_voids' = << >>
                      /\ pc' = "fallback"
                      /\ UNCHANGED << placed_any, iterations, max_iterations >>
                 ELSE /\ placed_any' = TRUE
                      /\ iterations' = 0
                      /\ max_iterations' = Min(BACKFILL_ITERATION_CAP,
                                               Len(kept) + BACKFILL_ITERATION_SLACK)
                      /\ pc' = "backfill"
                      /\ UNCHANGED available_voids
         ELSE /\ void_candidates' = vc
              /\ pc' = "fallback"
              /\ UNCHANGED << available_voids, placed_any, iterations, max_iterations >>
  /\ UNCHANGED << cfgVars, candVars, ci, remaining, next_remaining, idx,
                  global_sheet_index, sheet, x, y, row_h, occupied, placed_here_count,
                  lists, all_sheets, part_to_sheet, occs, uidNext, sheetBodies,
                  hostFailures, still_remaining, fbVars, result, summary,
                  footprint, prober >>

\* candidate / void / orientation combinations the best-fit search accepts
BackfillFits ==
  { q \in [ e : 1..Len(available_voids), v : 1..MaxVoidsPerBody,
            c : 1..Len(void_candidates), o : 1..2 ] :
      /\ q.v <= Len(available_voids[q.e].voids)
      /\ q.o <= Len(orientations(void_candidates[q.c]))
      /\ LET it == void_candidates[q.c]
             gm == _get_packing_group_members(it)
         IN  Len(gm) > 1 => part_to_sheet[gm[1]] # None
      /\ LET fp   == orientations(void_candidates[q.c])[q.o][2]
             void == available_voids[q.e].voids[q.v]
         IN  /\ can_fit_in_void(fp[1], fp[2], void, VOID_NESTING_MARGIN)
             /\ (void.width - fp[1] - 2 * VOID_NESTING_MARGIN)
                  * (void.height - fp[2] - 2 * VOID_NESTING_MARGIN) >= 0 }

Slack(q) ==
  LET fp   == orientations(void_candidates[q.c])[q.o][2]
      void == available_voids[q.e].voids[q.v]
  IN  (void.width - fp[1] - 2 * VOID_NESTING_MARGIN)
      * (void.height - fp[2] - 2 * VOID_NESTING_MARGIN)

\* loop order of the search: void entry, void, candidate, orientation
QuadLess(a, b) ==
  \/ a.e < b.e
  \/ a.e = b.e /\ a.v < b.v
  \/ a.e = b.e /\ a.v = b.v /\ a.c < b.c
  \/ a.e = b.e /\ a.v = b.v /\ a.c = b.c /\ a.o < b.o

\* "best": minimum slack, the first such in loop order
BackfillBest ==
  CHOOSE a \in BackfillFits :
    \A b \in BackfillFits \ {a} :
      Slack(a) < Slack(b) \/ (Slack(a) = Slack(b) /\ QuadLess(a, b))

\* variant: a pop that leaves the list as it was
RemoveAt_Keep(s, k) == s
\* list.pop(k) / list.remove(element k)
RemoveAt(s, k) == SubSeq(s, 1, k - 1) \o SubSeq(s, k + 1, Len(s))

\* sheet_by_name.get(name): the SheetLayout whose component has that name
SheetByName(name) ==
  { k \in 1..Len(all_sheets) :
      << all_sheets[k].index, all_sheets[k].class_name >> = name }

\* one iteration of the backfill while-loop (lines 1053-1184)
BackfillIter ==
  /\ pc = "backfill"
  /\ iterations' = iterations + 1
  /\ IF iterations' > max_iterations \/ BackfillFits = {}
     THEN /\ placed_any' = FALSE
          /\ pc' = "fallback"
          /\ UNCHANGED << void_candidates, available_voids, lists, part_to_sheet,
                          sheetBodies, hostFailures >>
     ELSE LET best == BackfillBest
              it   == void_candidates[best.c]
              e    == available_voids[best.e]
              void == e.voids[best.v]
              o    == orientations(it)[best.o]
              b    == NestedBodyO(it, best.e, best.v, o, "backfill")
              entry == ListEntry(it, o[2][1], o[2][2])
              l1   == [ lists EXCEPT ![e.uid] = Append(@, entry) ]
              voids2 == RemoveAt(e.voids, best.v)
          IN  /\ void_candidates' = RemoveAt(void_candidates, best.c)
              /\ \E outcome \in { "ok", "copy_failed", "move_failed" } :
                   IF outcome = "ok"
                   THEN /\ sheetBodies' = sheetBodies \cup { b }
                        /\ lists' = IF SheetByName(e.sheet_name) # {}
                                    THEN LET k == CHOOSE j \in SheetByName(e.sheet_name) :
                                                    \A j2 \in SheetByName(e.sheet_name) : j2 <= j
                                         IN  [ l1 EXCEPT ![all_sheets[k].uid] = Append(@, entry) ]
                                    ELSE l1
                        /\ part_to_sheet' = [ part_to_sheet EXCEPT ![it] = e.sheet_name ]
                        /\ available_voids' =
                             IF voids2 = << >> THEN RemoveAt(available_voids, best.e)
                             ELSE [ available_voids EXCEPT ![best.e].voids = voids2 ]
                        /\ placed_any' = TRUE
                        /\ pc' = IF void_candidates' # << >> /\ available_voids' # << >>
                                 THEN "backfill" ELSE "fallback"
                        /\ UNCHANGED hostFailures
                   ELSE \* the candidate is already popped; "continue" ends the
                        \* loop, so the pass sees one failed host call at most
                        /\ hostFailures' = hostFailures + 1
                        /\ sheetBodies' = IF outcome = "move_failed"
                                          THEN sheetBodies \cup { [ b EXCEPT !.kind = "orphan" ] }
                                          ELSE sheetBodies
                        /\ placed_any' = FALSE
                        /\ pc' = "fallback"
                        /\ UNCHANGED << available_voids, lists, part_to_sheet >>
  /\ UNCHANGED << cfgVars, candVars, ci, remaining, next_remaining, idx,
                  global_sheet_index, sheet, x, y, row_h, occupied, placed_here_count,
                  all_sheets, occs, uidNext, still_remaining, placed_names,
                  max_iterations, fbVars, result, summary,
                  footprint, prober >>

\* ------------------------------------------------------------- fallback
\* classes of the fallback groups in catalog order
FallbackClasses(vc) ==
  LET used == { sheet_class[vc[k]] : k \in 1..Len(vc) }
      RECURSIVE Walk(_)
      Walk(i) == IF i > Len(catalog) THEN << >>
                 ELSE (IF catalog[i].name \in used
                       THEN << catalog[i].name >> ELSE << >>) \o Walk(i + 1)
  IN  Walk(1)

\* "for cn in sorted(fallback_groups.keys())": enter class k, or leave the pass
EnterFallbackClass(k, classes, vc) ==
  /\ fi' = k
  /\ IF k <= Len(classes)
     THEN /\ remaining_fb' = SortDesc(ClassItems(vc, sheet_class, classes[k]), AreaKey)
          /\ pc' = "fb_sheet_start"
          /\ UNCHANGED void_candidates
     ELSE /\ remaining_fb' = << >>
          /\ void_candidates' = leftover'
          /\ pc' = "reconcile"

\* lines 1191-1220: hand the remaining void candidates to the fallback pass
FallbackStart ==
  /\ pc = "fallback"
  /\ IF void_candidates = << >>
     THEN /\ pc' = "reconcile"
          /\ UNCHANGED << void_candidates, fallback_classes, fi, remaining_fb,
                          leftover, fb_handed >>
     ELSE /\ fallback_classes' = FallbackClasses(void_candidates)
          /\ fb_handed' = { void_candidates[k] : k \in 1..Len(void_candidates) }
          /\ leftover' = << >>
          /\ EnterFallbackClass(1, fallback_classes', void_candidates)
  /\ UNCHANGED << cfgVars, candVars, ci, remaining, next_remaining, idx,
                  global_sheet_index, sheetVars, lists, all_sheets, available_voids,
                  part_to_sheet, occs, uidNext, sheetBodies, hostFailures,
                  still_remaining, placed_names, iterations, max_iterations,
                  next_remaining_fb, placed_here, fb_attempted, fb_failures,
                  result, summary,
                  footprint, prober >>

\* top of "while remaining_fb": open a fallback sheet
FallbackStartSheet ==
  /\ pc = "fb_sheet_start"
  /\ LET name == << global_sheet_index, fallback_classes[fi] >>
         uid  == EnsureOccurrence(name)
     IN  /\ sheet' = [ name |-> name, uid |-> uid ]
         /\ occs' = occs \cup { [ name |-> name, uid |-> uid ] }
         /\ uidNext' = IF uid = uidNext THEN uidNext + 1 ELSE uidNext
         /\ lists' = [ u \in (DOMAIN lists) \cup {uid} |->
                         IF u = uid THEN << >> ELSE lists[u] ]
  /\ placed_here' = FALSE
  /\ next_remaining_fb' = << >>
  /\ x' = 0 /\ y' = 0 /\ row_h' = 0
  /\ idx' = 1
  /\ pc' = "fb_place"
  /\ UNCHANGED << cfgVars, candVars, ci, remaining, next_remaining,
                  global_sheet_index, occupied, placed_any, placed_here_count,
                  all_sheets, available_voids, part_to_sheet, sheetBodies,
                  hostFailures, still_remaining, backVars, fallback_classes, fi,
                  remaining_fb, leftover, fb_handed, fb_attempted, fb_failures,
                  result, summary,
                  footprint, prober >>

\* one iteration of "for it in remaining_fb" (lines 1243-1307)
FallbackAttempt ==
  /\ pc = "fb_place"
  /\ LET it == remaining_fb[idx]
         cn == fallback_classes[fi]
         usable_w == UsableW(cn)
         usable_h == UsableH(cn)
         tries == Tries(it)
         cur == [ x |-> x, y |-> y, row_h |-> row_h ]
     IN  /\ fb_attempted' = fb_attempted \cup { it }
         /\ \E quota \in 0..BudgetLeft :
            LET r == RunTries(tries, 1, cur, << >>, quota, 0,
                              usable_w, usable_h, FALSE, TRUE)
            IN  /\ r.nf = quota
                /\ hostFailures' = hostFailures + r.nf
                /\ fb_failures' = fb_failures + r.nf
                /\ x' = r.cur.x /\ y' = r.cur.y /\ row_h' = r.cur.row_h
                /\ IF r.placed
                   THEN /\ sheetBodies' = sheetBodies \cup { PlacedBody(it, r, "fallback") }
                        /\ lists' = [ lists EXCEPT ![sheet.uid] =
                                        Append(@, ListEntry(it, r.w, r.h)) ]
                        /\ part_to_sheet' = [ part_to_sheet EXCEPT ![it] = sheet.name ]
                        /\ placed_here' = TRUE
                        /\ UNCHANGED next_remaining_fb
                   ELSE /\ next_remaining_fb' = Append(next_remaining_fb, it)
                        /\ UNCHANGED << sheetBodies, lists, part_to_sheet, placed_here >>
  /\ IF idx < Len(remaining_fb)
     THEN /\ idx' = idx + 1 /\ pc' = "fb_place"
     ELSE /\ idx' = 1 /\ pc' = "fb_finish"
  /\ UNCHANGED << cfgVars, candVars, ci, remaining, next_remaining,
                  global_sheet_index, sheet, occupied, placed_any, placed_here_count,
                  all_sheets, available_voids, occs, uidNext, still_remaining,
                  backVars, fallback_classes, fi, remaining_fb, leftover, fb_handed,
                  result, summary,
                  footprint, prober >>

\* end of a fallback sheet iteration (lines 1315-1336)
FallbackFinishSheet ==
  /\ pc = "fb_finish"
  /\ IF placed_here
     THEN /\ all_sheets' = Append(all_sheets,
                [ index |-> global_sheet_index,
                  class_name |-> fallback_classes[fi],
                  uid |-> sheet.uid ])
          /\ global_sheet_index' = SheetIndexAfter(global_sheet_index, TRUE)
          /\ UNCHANGED << occs, leftover >>
          /\ IF next_remaining_fb = << >>
             THEN EnterFallbackClass(fi + 1, fallback_classes, void_candidates)
             ELSE /\ remaining_fb' = next_remaining_fb
                  /\ pc' = "fb_sheet_start"
                  /\ UNCHANGED << fi, void_candidates >>
     ELSE \* no progress on this sheet: drop it, the rest of the class is left over
          /\ occs' = occs \ { [ name |-> sheet.name, uid |-> sheet.uid ] }
          /\ leftover' = leftover \o next_remaining_fb
          /\ global_sheet_index' = SheetIndexAfter(global_sheet_index, FALSE)
          /\ UNCHANGED all_sheets
          /\ EnterFallbackClass(fi + 1, fallback_classes, void_candidates)
  /\ UNCHANGED << cfgVars, candVars, ci, remaining, next_remaining, idx, sheetVars,
                  lists, available_voids, part_to_sheet, uidNext, sheetBodies,
                  hostFailures, still_remaining, placed_names, iterations,
                  max_iterations, fallback_classes, next_remaining_fb, placed_here,
                  fb_handed, fb_attempted, fb_failures, result, summary,
                  footprint, prober >>

\* --------------------------------------------------------- reconciliation
ItemNames == { items[k] : k \in 1..Len(items) }

\* variant: a coverage check that does not require the void candidates
MissingMain_VoidExempt(main_names, void_names, placed_final) ==
  (main_names \ void_names) \ placed_final
\* missing_main of the coverage check: main_names - placed_names_final
MissingMain(main_names, void_names, placed_final) == main_names \ placed_final
MissingVoid(main_names, void_names, placed_final) == void_names \ placed_final

\* "=== POST-VALIDATION: PART ACCOUNTING ===" log lines (1360-1382)
AccountingReport == { "loaded", "partitioned", "placed", "missing" }
\* "Placement coverage: placed .. across .. sheets" and one line per sheet,
\* logged "if not missing_main" (lines 1401-1413)
CoverageLog(missing_main) ==
  IF missing_main = {} THEN { "placed", "sheets", "per_sheet" } ELSE {}
\* the "Nesting Summary" message box; nothing without a user interface
_show_accounting_dialog(ui) ==
  IF ui THEN { "loaded", "partitioned", "placed", "missing", "sheets", "per_sheet" }
  ELSE {}
\* "Layout complete. Sheets created: .. Skipped: .." (line 1445)
CompleteLog == { "sheets" }

\* lines 1343-1449: coverage check, raise or return
Reconcile ==
  /\ pc = "reconcile"
  /\ LET placed_names_final == { p \in Parts : part_to_sheet[p] # None }
         main_names == ItemNames
         void_names == void_candidate_names
         missing_main == MissingMain(main_names, void_names, placed_names_final)
         missing_void == MissingVoid(main_names, void_names, placed_names_final)
     IN  IF missing_main # {} /\ cfg.fail
         THEN /\ result' = "raised"
              /\ skipped' = skipped \cup missing_main
              /\ summary' = AccountingReport
         ELSE /\ result' = "returned"
              /\ skipped' = skipped \cup missing_main \cup missing_void
              /\ \E ui \in BOOLEAN :
                    summary' = AccountingReport \cup CoverageLog(missing_main)
                                 \cup _show_accounting_dialog(ui) \cup CompleteLog
  /\ pc' = "done"
  /\ UNCHANGED << cfgVars, items, sheet_class, prefer_rot, void_candidate_names,
                  class_names_sorted, ci, remaining, next_remaining, idx,
                  global_sheet_index, sheetVars, lists, all_sheets, available_voids,
                  part_to_sheet, occs, uidNext, sheetBodies, hostFailures,
                  still_remaining, backVars, fbVars, footprint, prober >>

Next ==
  \/ BuildCandidates
  \/ StartSheet
  \/ PrimaryAttempt
  \/ VoidPassItem
  \/ FinishSheet
  \/ AfterPrimary
  \/ BackfillIter
  \/ FallbackStart
  \/ FallbackStartSheet
  \/ FallbackAttempt
  \/ FallbackFinishSheet
  \/ Reconcile

Spec == Init /\ [][Next]_vars

\* ================================================================ claims
Placed(p) == part_to_sheet[p] # None
Done == pc = "done"
Returned == result = "returned"
Raised == result = "raised"

\* number of entries naming p over the part lists of all returned SheetLayouts
Occurrences(p) ==
  Cardinality({ ki \in (1..Len(all_sheets)) \X (1..(2 * NParts)) :
                  /\ ki[2] <= Len(lists[all_sheets[ki[1]].uid])
                  /\ lists[all_sheets[ki[1]].uid][ki[2]].name = p })

\* C1: when layout returns normally, no part name occurs more than once in
\* the part lists of the returned sheets, whichever pass placed the part.
C1_NoDuplicateNames ==
  Returned => \A p \in Parts : Occurrences(p) <= 1

C3_OnlyVoidCandidatesMissingReturns ==
  (Done /\ (\A p \in ItemNames : ~ Placed(p) => p \in void_candidate_names))
      => Returned

\* C4: every non-void-candidate part that is unplaced when the primary
\* packing ends is attempted by the fallback pass before reconciliation.
C4_MainPartsReachFallback ==
  (pc \in { "reconcile", "done" } /\ items # << >>) =>
      \A p \in ItemNames :
          (p \notin placed_names /\ p \notin void_candidate_names)
              => p \in fb_attempted

\* C5: every void candidate that is unplaced after the backfill pass,
\* including those the backfill prefilter found to fit no void, is handed
\* to the fallback pass.
FallbackEntered ==
  pc \in { "fb_sheet_start", "fb_place", "fb_finish", "reconcile", "done" }
C5_VoidCandidatesReachFallback ==
  (FallbackEntered /\ items # << >>) =>
      \A p \in void_candidate_names : ~ Placed(p) => p \in fb_handed

\* C6: with host inserts and moves succeeding during the fallback pass, every
\* part handed to it whose footprint fits the usable area of its assigned
\* class in an allowed orientation has been placed by it when it ends; and
\* each fallback sheet iteration either shortens the remaining list or ends
\* the class, so the pass terminates.
FitsAssignedClass(p) ==
  \/ /\ fp0(p)[1] <= UsableW(sheet_class[p])
     /\ fp0(p)[2] <= UsableH(sheet_class[p])
  \/ /\ fp1(p) # None
     /\ fp1(p)[1] <= UsableW(sheet_class[p])
     /\ fp1(p)[2] <= UsableH(sheet_class[p])
PlacedByFallback(p) ==
  \E b \in sheetBodies : b.part = p /\ b.kind = "fallback"
FallbackOver == pc \in { "reconcile", "done" }
C6_FallbackComplete ==
  (FallbackOver /\ fb_failures = 0) =>
      \A p \in fb_handed : FitsAssignedClass(p) => PlacedByFallback(p)
C6_FallbackProgress ==
  pc = "fb_finish" =>
      \/ fi' = fi + 1
      \/ fi' = fi /\ Len(remaining_fb') < Len(remaining_fb)
C6_FallbackPlacesAllFitting ==
  [] C6_FallbackComplete /\ [][C6_FallbackProgress]_vars
C6_Witness ==
  /\ FallbackOver /\ fb_failures = 0
  /\ \E p, q \in fb_handed :
        /\ PlacedByFallback(p) /\ PlacedByFallback(q)
        /\ part_to_sheet[p] # part_to_sheet[q]

\* C7: on every sheet, at every point of the run, the rectangles of two
\* placed parts padded by spacing/2 on each side do not overlap; a part
\* nested in a void keeps that padding from the part that owns the void.
\* (corner coordinates of bodies are doubled, so the padding is "spacing")
PlacedBodies == { b \in sheetBodies : b.kind # "orphan" }
NestedIn(b, a) ==
  b.kind \in { "void", "backfill" } /\ b.owner = a.part /\ b.uid = a.uid
PaddedOverlap(a, b) ==
  /\ a.X0 - spacing < b.X0 + 2 * b.w + spacing
  /\ b.X0 - spacing < a.X0 + 2 * a.w + spacing
  /\ a.Y0 - spacing < b.Y0 + 2 * b.h + spacing
  /\ b.Y0 - spacing < a.Y0 + 2 * a.h + spacing
PaddedInsideVoid(b) ==
  b.w + spacing <= b.vw /\ b.h + spacing <= b.vh
C7_NoPaddedOverlap ==
  \A a, b \in PlacedBodies :
      (a # b /\ a.uid = b.uid) =>
          IF NestedIn(b, a) THEN PaddedInsideVoid(b)
          ELSE IF NestedIn(a, b) THEN PaddedInsideVoid(a)
          ELSE ~ PaddedOverlap(a, b)

\* C8: every part placed by shelf, smart or fallback placement lies inside
\* the usable area of its sheet in the orientation used:
\* place_x + w <= usable_w and place_y + h <= usable_h.
CursorPlaced(b) == b.kind \in { "shelf", "smart", "fallback" }
C8_InsideUsableArea ==
  \A b \in sheetBodies :
      CursorPlaced(b) =>
          /\ 0 <= b.px /\ b.px + b.w <= UsableW(b.sheet_name[2])
          /\ 0 <= b.py /\ b.py + b.h <= UsableH(b.sheet_name[2])
C8_Witness ==
  /\ \E b \in sheetBodies : b.kind \in { "shelf", "smart" } /\ b.py > 0 /\ b.rot
  /\ \E b \in sheetBodies : b.kind = "fallback"

\* C9: every part nested into a void (primary pass, per-sheet void pass or
\* backfill) fits the void with the configured clearance in the orientation
\* used: w + 2*margin <= void width and h + 2*margin <= void height.
C9_NestedFitsVoid ==
  \A b \in sheetBodies :
      b.kind \in { "void", "backfill" } =>
          /\ b.w + 2 * VOID_NESTING_MARGIN <= b.vw
          /\ b.h + 2 * VOID_NESTING_MARGIN <= b.vh
C9_Witness ==
  /\ \E b \in sheetBodies : b.kind = "void"
  /\ \E b \in sheetBodies : b.kind = "backfill"

\* C10: every placed non-anchor member of a packing group is on the sheet
\* of the group's anchor when spillover is disabled, and with spillover
\* enabled is on the anchor's sheet or on a later sheet of the anchor's
\* class, whichever pass placed it.
CoLocated(m, a) ==
  \/ part_to_sheet[m] = part_to_sheet[a]
  \/ /\ cfg.spill
     /\ part_to_sheet[m][1] > part_to_sheet[a][1]
     /\ part_to_sheet[m][2] = part_to_sheet[a][2]
C10_GroupCoLocation ==
  \A g \in 1..Len(packing_groups) :
      \A k \in 2..Len(packing_groups[g]) :
          (Placed(packing_groups[g][k]) /\ Placed(packing_groups[g][1]))
              => CoLocated(packing_groups[g][k], packing_groups[g][1])

\* C11: each detected void instance (a void of a placed body) holds at most
\* one nested part, whichever pass nested it.
SameVoid(a, b) ==
  /\ a.kind \in { "void", "backfill" } /\ b.kind \in { "void", "backfill" }
  /\ a.uid = b.uid /\ a.owner = b.owner /\ a.vid = b.vid
C11_VoidSingleUse ==
  \A a, b \in sheetBodies : SameVoid(a, b) => a = b

\* C12: the backfill loop terminates: it never performs more than
\* min(50, candidates + 10) iterations, an iteration that finds no fitting
\* candidate/void pair or places nothing leaves the loop, and an iteration
\* after which the loop goes on has placed a part and shortened the list of
\* candidates.
BackfillPlacedNow ==
  \E b \in sheetBodies' \ sheetBodies : b.kind = "backfill"
C12_BackfillBound ==
  /\ iterations <= max_iterations
  /\ max_iterations <= BACKFILL_ITERATION_CAP
  /\ pc = "backfill" =>
       max_iterations = Min(BACKFILL_ITERATION_CAP,
                            iterations + Len(void_candidates) + BACKFILL_ITERATION_SLACK)
C12_BackfillStep ==
  pc = "backfill" =>
      /\ iterations' = iterations + 1
      /\ (BackfillFits = {} \/ ~ BackfillPlacedNow) => pc' = "fallback"
      /\ pc' = "backfill" =>
           /\ BackfillPlacedNow
           /\ Len(void_candidates') < Len(void_candidates)
SheetsDiscarded == uidNext - 1 > Len(all_sheets)
C13_SheetIndexesConsecutive ==
  \A k \in 1..Len(all_sheets) : all_sheets[k].index = k
C13_Witness ==
  /\ Returned /\ Len(all_sheets) >= 2 /\ SheetsDiscarded
  /\ \E b \in sheetBodies : b.kind = "fallback"

\* C14: no SheetLayout in all_sheets has an empty part list; a sheet on
\* which nothing was placed (every candidate deferred, or every candidate
\* nested into a void of another sheet) is discarded.
SheetDeleted(u) == u \in DOMAIN lists /\ \A o \in occs : o.uid # u
NestedCrossSheet(b) ==
  b.kind = "void" /\ b.sheet_name[2] # sheet_class[b.part]
C14_NoEmptySheet ==
  \A k \in 1..Len(all_sheets) : lists[all_sheets[k].uid] # << >>
C14_Witness ==
  /\ Returned /\ fb_handed = {} /\ all_sheets # << >>
  /\ \E u \in DOMAIN lists : SheetDeleted(u) /\ lists[u] = << >>
  /\ \E b \in sheetBodies : NestedCrossSheet(b)

\* ------------------------------------------- class choice as a function
\* _pick_best_sheet_and_rot applied to footprints under every order of the
\* sheet-class catalog, with and without rotation
CatalogOrders ==
  { [ i \in 1..Len(SHEET_CLASSES) |-> SHEET_CLASSES[f[i]] ] :
      f \in { g \in [ 1..Len(SHEET_CLASSES) -> 1..Len(SHEET_CLASSES) ] :
                \A i, j \in 1..Len(SHEET_CLASSES) : i # j => g[i] # g[j] } }
\* footprints that fit every class, only the longer classes, only the wide
\* class, the standard class only when turned, and no class
PickShapes ==
  { [ w |-> 10000, h |-> 10000, voids |-> << >> ],
    [ w |-> 10000, h |-> 25000, voids |-> << >> ],
    [ w |-> 10000, h |-> 32000, voids |-> << >> ],
    [ w |-> 15000, h |-> 25000, voids |-> << >> ],
    [ w |-> 15000, h |-> 10000, voids |-> << >> ],
    [ w |-> 24000, h |-> 10000, voids |-> << >> ],
    [ w |-> 32000, h |-> 32000, voids |-> << >> ] }
PickConfigs ==
  [ file : {"foamcam"}, strategy : {"shelf"}, void : {TRUE}, cross : {FALSE},
    backfill : {FALSE}, spill : {FALSE}, fail : {TRUE}, rotate : BOOLEAN ]
InitPick ==
  /\ cfg \in PickConfigs
  /\ bodies \in [ Parts -> PickShapes ]
  /\ packing_groups = << >>
  /\ catalog \in CatalogOrders
  /\ measured = Unmeasured
  /\ pc = "pick"
  /\ InitLocals
\* best, best_rot = self._pick_best_sheet_and_rot(fp0, fp1) for every body
PickSheet ==
  /\ pc = "pick"
  /\ sheet_class' = [ p \in Parts |-> Best(p)[1] ]
  /\ prefer_rot' = [ p \in Parts |-> Best(p)[2] ]
  /\ pc' = "picked"
  /\ UNCHANGED << cfgVars, items, skipped, void_candidate_names,
                  class_names_sorted, ci, remaining, next_remaining, idx,
                  global_sheet_index, sheetVars, lists, all_sheets,
                  available_voids, part_to_sheet, occs, uidNext, sheetBodies,
                  hostFailures, still_remaining, backVars, fbVars, result, summary,
                  footprint, prober >>
NextPick == PickSheet
SpecPick == InitPick /\ [][NextPick]_vars

\* C15: under every order of the catalog, the chosen class is the preferred
\* class (STD_4x8) when some allowed orientation of the footprint fits it;
\* otherwise it is the earliest catalog class that some allowed orientation
\* fits, and None only when no class fits any allowed orientation.
PREFERRED_CLASS == "STD_4x8"
AllowedOrients(p) ==
  { fp0(p) } \cup (IF cfg.rotate /\ fp1(p) # None THEN { fp1(p) } ELSE {})
FitsSomeWay(p, cn) ==
  \E o \in AllowedOrients(p) : o[1] <= UsableW(cn) /\ o[2] <= UsableH(cn)
EarliestFitting(p) ==
  IF \E i \in ClassIdx : FitsSomeWay(p, catalog[i].name)
  THEN catalog[CHOOSE i \in ClassIdx :
          /\ FitsSomeWay(p, catalog[i].name)
          /\ \A j \in ClassIdx : FitsSomeWay(p, catalog[j].name) => i <= j].name
  ELSE None
C15_PreferredThenCatalogOrder ==
  pc = "picked" =>
      \A p \in Parts :
          sheet_class[p] = IF FitsSomeWay(p, PREFERRED_CLASS)
                           THEN PREFERRED_CLASS ELSE EarliestFitting(p)

\* --------------------------------------- candidate building as a function
\* the candidate-building part of layout applied to bodies in every input
\* order, with every choice of anchor and member
BuildConfigs ==
  { c \in Configs : c.strategy = "shelf" /\ ~ c.cross /\ ~ c.backfill /\ ~ c.spill }
\* the shapes of the packing runs and a board 1200 mm long: as long as the
\* force cap allows, and longer than the usable width of the standard class
BuildShapes == Shapes \cup { [ w |-> 12000, h |-> 5000, voids |-> << >> ] }
InitBuild ==
  /\ cfg \in BuildConfigs
  /\ bodies \in [ Parts -> BuildShapes ]
  /\ packing_groups \in GroupChoices
  /\ catalog = SHEET_CLASSES
  /\ measured = Unmeasured
  /\ pc = "build"
  /\ InitLocals
NextBuild == BuildCandidates
SpecBuild == InitBuild /\ [][NextBuild]_vars

\* C16: after candidate building, a non-anchor member of a packing group
\* whose anchor is among the candidates has the anchor's sheet class,
\* whether the anchor comes before or after it in the input, unless its
\* largest dimension exceeds the force cap: then it keeps its own best class.
Built == pc # "build"
ExceedsForceCap(p) ==
  \E d \in { bodies[p].w, bodies[p].h } : d > PACKING_GROUP_FORCE_MAX_DIM_MM
PrimaryKinds == { "shelf", "smart", "void" }
PrimaryPlacedNow ==
  { b \in sheetBodies' \ sheetBodies : b.kind \in PrimaryKinds }
C17_Step ==
  \A b \in PrimaryPlacedNow :
      IsGroupMember(b.part) => part_to_sheet[_get_group_anchor(b.part)] # None
C17_MembersWaitForAnchor == [][C17_Step]_vars

\* C18: in every run of layout, whether it returns or raises the
\* unplaced-part error, the operator summary (sheets created, parts placed
\* and missing, part count of each sheet) has been emitted by the time the
\* run ends; for a raise that is before the error leaves layout.
OperatorSummary == { "sheets", "placed", "missing", "per_sheet" }
C18_SummaryAlwaysEmitted == Done => OperatorSummary \subseteq summary

\* C19: the primary packing loop of a class terminates. A sheet iteration
\* that placed a part ends with fewer parts remaining than it started with,
\* and the next sheet of the class starts from that shorter list; a sheet
\* iteration that placed nothing ends the class at once, whatever is left
\* (oversized parts, members deferred by their group).
InSheetIteration == pc \in { "place", "void_pass", "finish" }
C19_Step ==
  /\ (InSheetIteration /\ pc # "finish") => remaining' = remaining
  /\ pc = "finish" =>
        IF placed_any
        THEN /\ Len(next_remaining) < Len(remaining)
             /\ ci' = ci => (remaining' = next_remaining /\ remaining' # << >>)
        ELSE /\ ci' = ci + 1
             /\ uidNext' = uidNext
C19_PrimaryLoopTerminates == [][C19_Step]_vars
C19_Witness ==
  /\ pc = "finish" /\ ~ placed_any
  /\ all_sheets # << >> /\ all_sheets[Len(all_sheets)].class_name = class_names_sorted[ci]
  /\ \E k \in 1..Len(remaining) :
        /\ IsGroupMember(remaining[k])
        /\ ~ Placed(_get_group_anchor(remaining[k]))

\* C20: in each backfill iteration the placed triple of candidate, void and
\* orientation is one of the triples that fit at that moment over the voids
\* no part has been nested into, and no such triple has less leftover slack,
\* whatever the order of the candidates and of the voids.
Consumed(e, v) ==
  \E a \in sheetBodies :
      /\ a.kind \in { "void", "backfill" }
      /\ a.uid = available_voids[e].uid
      /\ a.owner = available_voids[e].body_name
      /\ a.vid = available_voids[e].voids[v].id
UnconsumedFits == { q \in BackfillFits : ~ Consumed(q.e, q.v) }
BodySlack(b) ==
  (b.vw - b.w - 2 * VOID_NESTING_MARGIN) * (b.vh - b.h - 2 * VOID_NESTING_MARGIN)
PlacedTriple(b, q) ==
  /\ void_candidates[q.c] = b.part
  /\ orientations(b.part)[q.o][1] = b.rot
  /\ available_voids[q.e].uid = b.uid
  /\ available_voids[q.e].body_name = b.owner
  /\ available_voids[q.e].voids[q.v].id = b.vid
C20_Step ==
  \A b \in sheetBodies' \ sheetBodies :
      b.kind = "backfill" =>
          /\ \E q \in UnconsumedFits : PlacedTriple(b, q)
          /\ \A q \in UnconsumedFits : BodySlack(b) <= Slack(q)
C20_BackfillMinSlack == [][C20_Step]_vars

\* C21: a part nested into a void during the primary pass is appended to the
\* part list of the sheet that holds the owner of the void, and its sheet
\* assignment names that sheet; that sheet is another one than the sheet
\* being packed only when cross-sheet void nesting is enabled.
NestedNow == { b \in sheetBodies' \ sheetBodies : b.kind = "void" }
OwnerSheets(b) ==
  { o \in sheetBodies : o.part = b.owner /\ o.kind \notin { "void", "backfill", "orphan" } }
C21_Step ==
  \A b \in NestedNow :
      /\ \E o \in OwnerSheets(b) : o.uid = b.uid /\ o.sheet_name = b.sheet_name
      /\ lists' = [ lists EXCEPT ![b.uid] =
                      Append(@, ListEntry(b.part, b.w, b.h)) ]
      /\ part_to_sheet'[b.part] = b.sheet_name
      /\ b.uid # sheet.uid => cfg.cross
C21_NestedRecordedOnOwningSheet == [][C21_Step]_vars
C21_Witness ==
  \E b \in sheetBodies :
      /\ b.kind = "void"
      /\ b.uid # sheet.uid
      /\ pc \in { "place", "void_pass", "finish" }
      /\ placed_any /\ placed_here_count = 0
      /\ part_to_sheet[b.part] = b.sheet_name
      /\ \E k \in 1..Len(lists[b.uid]) : lists[b.uid][k].name = b.part

\* ------------------------------------------- footprint resolver as a function
\* _sanitized_footprint applied to every combination of the two host
\* measurements: the bounding box extents and the measurement of the
\* disposable copy, each one missing or a pair of lengths (tenths of mm)
\* the bounding box of a solid body has positive extents; the flattened copy
\* can measure zero along an axis
BboxLengths == { 200, 250, 1000, 1200, 4000 }
TmpLengths == { 0 } \cup BboxLengths
BboxMeasurements == { None } \cup (BboxLengths \X BboxLengths)
TmpMeasurements == { None } \cup (TmpLengths \X TmpLengths)

\* max(w, 0.001) * max(h, 0.001) is kept as n * 100^k in units of
\* (0.001 mm)^2: n the product of the lengths that are not clamped (tenths
\* of mm), k their number
Unclamped(f) == { i \in {1, 2} : f[i] * 100 >= 1 }
ClampedN(f) == (IF 1 \in Unclamped(f) THEN f[1] ELSE 1)
               * (IF 2 \in Unclamped(f) THEN f[2] ELSE 1)
Pow100(k) == IF k = 0 THEN 1 ELSE IF k = 1 THEN 100 ELSE IF k = 2 THEN 10000 ELSE 1000000
\* ratio < 0.01, that is 100 * tmp_area < bb_area
RatioBelow(tmp, bb) ==
  LET kt == Cardinality(Unclamped(tmp)) + 1
      kb == Cardinality(Unclamped(bb))
  IN  IF kt >= kb
      THEN ClampedN(tmp) <= (ClampedN(bb) - 1) \div Pow100(kt - kb)
      ELSE ClampedN(tmp) \div Pow100(kb - kt) < ClampedN(bb)
\* variant: a resolver without the sanity test
SanityToBbox_Never(tmp, bb) == FALSE
\* "if ratio < 0.01 or (tmp_max < 25.0 and bb_max > 100.0)" (lines 143-149)
SanityToBbox(tmp, bb) ==
  LET tmp_max  == Max(tmp[1], tmp[2])
      bb_max   == Max(bb[1], bb[2])
  IN  \/ RatioBelow(tmp, bb)
      \/ (tmp_max < 250 /\ bb_max > 1000)
\* (h, w) if rot_90 else (w, h); None when the host call fails
_bbox_footprint_mm(m) ==
  IF m.bbox = None THEN None
  ELSE IF m.rot_90 THEN << m.bbox[2], m.bbox[1] >> ELSE m.bbox
_sanitized_footprint(m) ==
  LET bb  == _bbox_footprint_mm(m)
      tmp == m.tmp
  IN  IF tmp = None THEN bb
      ELSE IF bb = None THEN tmp
      ELSE IF SanityToBbox(tmp, bb) THEN bb
      ELSE tmp

InitFootprint ==
  /\ cfg \in PickConfigs
  /\ bodies = [ p \in Parts |-> ShapeList[1] ]
  /\ packing_groups = << >>
  /\ catalog = SHEET_CLASSES
  /\ measured \in [ bbox : BboxMeasurements, tmp : TmpMeasurements, rot_90 : BOOLEAN ]
  /\ measured.rot_90 => cfg.rotate
  /\ pc = "measure"
  /\ InitLocals
ResolveFootprint ==
  /\ pc = "measure"
  /\ footprint' = _sanitized_footprint(measured)
  /\ pc' = "measured"
  /\ UNCHANGED << cfgVars, candVars, ci, remaining, next_remaining, idx,
                  global_sheet_index, sheetVars, lists, all_sheets, available_voids,
                  part_to_sheet, occs, uidNext, sheetBodies, hostFailures,
                  still_remaining, backVars, fbVars, result, summary, prober >>
NextFootprint == ResolveFootprint
SpecFootprint == InitFootprint /\ [][NextFootprint]_vars

\* C22: the footprint resolver returns the measurement of the disposable
\* copy, except that it returns the bounding-box footprint when that
\* measurement is missing, when its area is below 1% of the bounding-box
\* area, or when its longer side is under 25 mm while the longer side of the
\* bounding box is over 100 mm; it returns None exactly when both
\* measurements are missing.
Resolved == pc = "measured"
PreciseFootprint == measured.tmp
BboxFootprint ==
  IF measured.bbox = None THEN None
  ELSE IF measured.rot_90 THEN << measured.bbox[2], measured.bbox[1] >>
  ELSE measured.bbox
PreciseRejected ==
  \/ PreciseFootprint = None
  \/ /\ BboxFootprint # None
     /\ \/ 100 * (PreciseFootprint[1] * PreciseFootprint[2])
              < BboxFootprint[1] * BboxFootprint[2]
        \/ /\ PreciseFootprint[1] < 250 /\ PreciseFootprint[2] < 250
           /\ (BboxFootprint[1] > 1000 \/ BboxFootprint[2] > 1000)
C22_FootprintReconciled ==
  Resolved =>
      /\ footprint = IF PreciseRejected THEN BboxFootprint ELSE PreciseFootprint
      /\ footprint = None <=> (measured.tmp = None /\ measured.bbox = None)
C22_Witness ==
  /\ Resolved
  /\ PreciseFootprint # None /\ BboxFootprint # None
  /\ footprint = BboxFootprint /\ footprint # PreciseFootprint
  /\ 100 * (PreciseFootprint[1] * PreciseFootprint[2])
        >= BboxFootprint[1] * BboxFootprint[2]

\* ------------------------------ insertion-strategy probe (foam_cam_template)
\* _probe_method and _final_insert of the template's packer, called for any
\* body and rotation in any order; each host insertion succeeds or fails
\* variant: a probe that never looks into the cache
CacheHit_Never(cache, ck) == FALSE
\* "if ck in probe_cache: return probe_cache[ck]"
CacheHit(cache, ck) == cache[ck] # NotProbed
\* outcome of a probe that reaches the host: rot=True must be TEMP, rot=False
\* prefers TEMP and falls back to copyToComponent
ProbeOutcome(rot_90, tempOK, copyOK) ==
  IF tempOK THEN "temp"
  ELSE IF ~ rot_90 /\ copyOK THEN "copy"
  ELSE ""
_probe_method(cache, ck, tempOK, copyOK) ==
  IF CacheHit(cache, ck)
  THEN [ method |-> cache[ck], cache |-> cache, host |-> 0 ]
  ELSE LET m == ProbeOutcome(ck[2], tempOK, copyOK)
       IN  [ method |-> m, cache |-> [ cache EXCEPT ![ck] = m ], host |-> 1 ]
\* the strategy _final_insert runs, and None when the host call fails
_final_insert(method, finalOK) ==
  IF method \in { "temp", "copy" } /\ finalOK THEN method ELSE None

InitProbe ==
  /\ cfg \in PickConfigs
  /\ bodies = [ p \in Parts |-> ShapeList[3] ]
  /\ packing_groups = << >>
  /\ catalog = SHEET_CLASSES
  /\ measured = Unmeasured
  /\ pc = "pack"
  /\ InitLocals
\* _pack_class: "method = _probe_method(...)", "if not method: continue",
\* "nb = _final_insert(...)"
ProbeThenInsert ==
  /\ pc = "pack"
  /\ prober.calls < MaxProbeCalls
  /\ \E ck \in ProbeKeys : \E tempOK, copyOK, finalOK \in BOOLEAN :
       /\ ck[2] => cfg.rotate
       /\ LET r == _probe_method(prober.probe_cache, ck, tempOK, copyOK)
          IN  prober' =
                [ probe_cache |-> r.cache,
                  contacts    |-> [ prober.contacts EXCEPT ![ck] = @ + r.host ],
                  calls       |-> prober.calls + 1,
                  last        |-> [ ck |-> ck, method |-> r.method, host |-> r.host,
                                    final |-> IF r.method = "" THEN None
                                              ELSE _final_insert(r.method, finalOK) ] ]
  /\ UNCHANGED << cfgVars, pc, candVars, ci, remaining, next_remaining, idx,
                  global_sheet_index, sheetVars, lists, all_sheets, available_voids,
                  part_to_sheet, occs, uidNext, sheetBodies, hostFailures,
                  still_remaining, backVars, fbVars, result, summary, footprint >>
NextProbe == ProbeThenInsert
SpecProbe == InitProbe /\ [][NextProbe]_vars

\* C23: for each (part, rotation) pair the probe contacts the host at most
\* once in a run: the outcome of the first probe (temp, copy or failure) is
\* cached, every later probe of the pair returns the cached outcome without
\* inserting anything, and the real insertion uses the cached strategy.
C23_ProbedOnce ==
  \A ck \in ProbeKeys :
      /\ prober.contacts[ck] <= 1
      /\ prober.contacts[ck] = 1 <=> prober.probe_cache[ck] # NotProbed
C23_FinalUsesCache ==
  (prober.calls > 0 /\ prober.last.final # None) =>
      prober.last.final = prober.probe_cache[prober.last.ck]
C23_Step ==
  \A ck \in ProbeKeys :
      prober.probe_cache[ck] # NotProbed =>
          /\ prober'.probe_cache[ck] = prober.probe_cache[ck]
          /\ prober'.contacts[ck] = prober.contacts[ck]
          /\ (prober'.last.ck = ck /\ prober'.calls # prober.calls)
                => prober'.last.method = prober.probe_cache[ck]
C23_ProbeCached ==
  /\ [] (C23_ProbedOnce /\ C23_FinalUsesCache)
  /\ [][C23_Step]_vars
C23_Witness ==
  /\ prober.calls >= 2
  /\ prober.last.host = 0
  /\ prober.last.final = "copy"
  /\ prober.contacts[prober.last.ck] = 1

\* ------------------------------------------------------------------ C24
\* the part the current iteration of a pass is trying to place
Attempted ==
  CASE pc = "place"     -> remaining[idx]
    [] pc = "void_pass" -> next_remaining[idx]
    [] pc = "backfill"  -> void_candidates[BackfillBest.c]
    [] pc = "fb_place"  -> remaining_fb[idx]

\* C24: in every pass a part whose host insertion or move fails during a
\* placement attempt, and that the attempt does not place, is still in the
\* list of unplaced parts the pass hands on: the deferred list of the sheet
\* in the primary pass, the list of void candidates (read by the fallback) in
\* the backfill pass, the deferred list of the sheet in the fallback pass.
C24_Step ==
  hostFailures' > hostFailures =>
    \/ part_to_sheet'[Attempted] # None
    \/ /\ pc = "place"
       /\ \E k \in 1..Len(next_remaining') : next_remaining'[k] = Attempted
    \/ /\ pc = "void_pass"
       /\ \E k \in 1..Len(still_remaining') : still_remaining'[k] = Attempted
    \/ /\ pc = "backfill"
       /\ \E k \in 1..Len(void_candidates') : void_candidates'[k] = Attempted
    \/ /\ pc = "fb_place"
       /\ \E k \in 1..Len(next_remaining_fb') : next_remaining_fb'[k] = Attempted
C24_FailedPartStaysInPool == [][C24_Step]_vars

\* ------------------------------------------------------------------ C25
\* C25: with group spillover enabled and no host call failing, every
\* non-anchor group member among the candidates whose footprint fits its
\* assigned class, and whose anchor is a candidate that fits its own class,
\* has a sheet when the primary per-class packing has ended, whatever the
\* areas of anchor and member and whatever the class order.
C25_SpilloverMembersPlaced ==
  (pc = "after_primary" /\ cfg.spill /\ hostFailures = 0) =>
    \A p \in ItemNames :
      ( /\ IsGroupMember(p) /\ FitsAssignedClass(p)
        /\ _get_group_anchor(p) \in ItemNames
        /\ FitsAssignedClass(_get_group_anchor(p)) )
      => part_to_sheet[p] # None

\* ------------------------------------------------------------------ C26
\* C26: in the list of candidates the placement loop iterates for a class,
\* the anchor of a packing group stands before every non-anchor member of
\* its group.
C26_AnchorsBeforeMembers ==
  pc = "place" =>
    \A i, j \in 1..Len(remaining) :
      ( /\ IsGroupMember(remaining[i])
        /\ _get_group_anchor(remaining[i]) = remaining[j] ) => j < i

\* ------------------------------------------------------------------ C27
\* C27: after candidate building every candidate fits the usable area of
\* the sheet class it is assigned to in at least one allowed orientation,
\* group members whose class was set to the class of their anchor included.
C27_CandidatesFitAssignedClass ==
  Built => \A p \in ItemNames : FitsAssignedClass(p)

\* ------------------------------------------------------------------ C28
\* the current attempt of a shelf pass ends with its part deferred
ShelfDeferred ==
  \/ /\ pc = "place" /\ cfg.strategy = "shelf"
     /\ next_remaining' = Append(next_remaining, remaining[idx])
  \/ /\ pc = "fb_place"
     /\ next_remaining_fb' = Append(next_remaining_fb, remaining_fb[idx])

\* C28: in shelf packing, primary and fallback, an attempt that ends with
\* the part deferred to the next sheet leaves the shelf cursor (x, y, row
\* height) of the sheet as it was.
C28_Step ==
  ShelfDeferred => (x' = x /\ y' = y /\ row_h' = row_h)
placed_count_reported == Cardinality(placed_names)

\* C29: the placed-part count of the final accounting (log line and
\* dialog) is the number of distinct parts that have a sheet assignment
\* when the run ends, whichever pass placed them.
C29_ReportedCountIsFinal ==
  (Done /\ "placed" \in summary) =>
    placed_count_reported = Cardinality({ p \in Parts : Placed(p) })

\* ------------------------------------------------------------------ C30
\* C30: at every point of the run every body present in a sheet is the body
\* of a part recorded in the part list of that sheet: a body whose attempt
\* failed after the insert (measuring or moving it failed) has been deleted,
\* in the primary, backfill and fallback passes.
C30_NoBodyWithoutRecord ==
  \A b \in sheetBodies :
    \E k \in 1..Len(lists[b.uid]) : lists[b.uid][k].name = b.part
====
